---- MODULE Spec2Model ----
(***************************************************************************)
(* Model of ActiveProApi.py: the command/response client of the Active-PRO *)
(* application (class ActiveProAPI), its port discovery and the driver of   *)
(* the command line.                                                        *)
(*                                                                          *)
(* Text is a sequence of one-character strings, so that lower(), upper()    *)
(* and strip() are computed character by character.  A time is a whole      *)
(* number of units of 0.0005 s; the numerals of a time on the wire are      *)
(* written in that unit.                                                    *)
(***************************************************************************)
EXTENDS Integers, Sequences, FiniteSets, TLC

VARIABLES
    wire,       \* what went over the socket: <<"send", command>> and <<"recv", raw text>> records
    call,       \* the facade call that produced the traffic: op, inputs, returned value, raised error
    probe,      \* find_available_ports: port -> "pending" | "done" | "collected"
    accepting,  \* the candidate ports on which an instance accepts connections
    available_ports_dict, \* find_available_ports: the mapping under construction
    discovered, \* find_available_ports: "running" | "returned"
    args,       \* command line: the parsed arguments
    pc,         \* command line: position of the driver
    exit_code   \* command line: -1 while running, else the exit status

vars == <<wire, call, probe, accepting, available_ports_dict, discovered, args, pc, exit_code>>

----------------------------------------------------------------------------
(* Bounds of the model *)

MaxT == 3       \* times given to the cursor and zoom operations range over -MaxT..MaxT
MaxC == 3       \* capture durations reported by the instrument range over 0..MaxC

(* 0.001 s, the width the code gives a degenerate zoom range, in units of 0.0005 s *)
Eps == 2

----------------------------------------------------------------------------
(* Text *)

UpperAlpha == <<"A","B","C","D","E","F","G","H","I","J","K","L","M",
                "N","O","P","Q","R","S","T","U","V","W","X","Y","Z">>
LowerAlpha == <<"a","b","c","d","e","f","g","h","i","j","k","l","m",
                "n","o","p","q","r","s","t","u","v","w","x","y","z">>
Digits == <<"0","1","2","3","4","5","6","7","8","9">>
Whitespace == {" ", "\n", "\r", "\t"}

IndexIn(c, alpha) == CHOOSE i \in 1..Len(alpha) : alpha[i] = c
IsIn(c, alpha) == \E i \in 1..Len(alpha) : alpha[i] = c

LowerChar(c) == IF IsIn(c, UpperAlpha) THEN LowerAlpha[IndexIn(c, UpperAlpha)] ELSE c
UpperChar(c) == IF IsIn(c, LowerAlpha) THEN UpperAlpha[IndexIn(c, LowerAlpha)] ELSE c

\* str.lower()
Lower(s) == [i \in 1..Len(s) |-> LowerChar(s[i])]
\* str.upper()
Upper(s) == [i \in 1..Len(s) |-> UpperChar(s[i])]

\* str.strip(): drop the whitespace at both ends
RECURSIVE LStrip(_)
LStrip(s) == IF s # <<>> /\ Head(s) \in Whitespace THEN LStrip(Tail(s)) ELSE s
RECURSIVE RStrip(_)
RStrip(s) == IF s # <<>> /\ s[Len(s)] \in Whitespace THEN RStrip(SubSeq(s, 1, Len(s) - 1)) ELSE s
Strip(s) == RStrip(LStrip(s))

\* str(n) of a natural number
RECURSIVE Numeral(_)
Numeral(n) == IF n < 10 THEN <<Digits[n + 1]>> ELSE Numeral(n \div 10) \o <<Digits[(n % 10) + 1]>>

\* float(s): the value of a numeral, or -1 when s is not a number (ValueError)
RECURSIVE DigitsValue(_)
DigitsValue(s) == IF s = <<>> THEN 0
                  ELSE 10 * DigitsValue(SubSeq(s, 1, Len(s) - 1)) + (IndexIn(s[Len(s)], Digits) - 1)
IsNumeral(s) == s # <<>> /\ \A i \in 1..Len(s) : IsIn(s[i], Digits)
ParseFloat(s) == IF IsNumeral(s) THEN DigitsValue(s) ELSE -1

\* float(s) of a signed numeral
IsFloat(s) == IsNumeral(s) \/ (Len(s) >= 2 /\ s[1] = "-" /\ IsNumeral(Tail(s)))
FloatValue(s) == IF s[1] = "-" THEN 0 - DigitsValue(Tail(s)) ELSE DigitsValue(s)

\* str.startswith
StartsWith(s, prefix) == Len(s) >= Len(prefix) /\ SubSeq(s, 1, Len(prefix)) = prefix

Max(a, b) == IF a >= b THEN a ELSE b
Min(a, b) == IF a <= b THEN a ELSE b

----------------------------------------------------------------------------
(* Transport client *)

\* A command line: the verb, its textual argument and its time arguments
Command(verb, text, nums) == [verb |-> verb, text |-> text, nums |-> nums]

\* What sendall is given: the command, and in raw the terminator written after it
Sent(command) == [dir |-> "send", cmd |-> command, raw |-> <<"\n">>]
\* sendall or recv raises an OSError
SocketError(during) == [dir |-> during, cmd |-> Command("", <<>>, <<>>), raw |-> <<>>]
Recv(raw) == [dir |-> "recv", cmd |-> Command("", <<>>, <<>>), raw |-> raw]

\* The outcome of a method: the traffic so far, the returned text / boolean / number,
\* and the exception raised ("" when none)
Outcome(w, ret, retb, retn, raised) ==
    [wire |-> w, ret |-> ret, retb |-> retb, retn |-> retn, raised |-> raised]

\* What the socket does to an exchange instead of answering it
SendError == <<"sendall raises">>
RecvError == <<"recv raises">>

\* send_command: write the command and a newline, read once, return the stripped
\* response; an error of the socket leaves the method as an exception
send_command_raw(w, command, raw) ==
    IF raw = SendError
    THEN Outcome(w \o <<Sent(command), SocketError("send_failed")>>, <<>>, FALSE, 0, "OSError")
    ELSE IF raw = RecvError
    THEN Outcome(w \o <<Sent(command), SocketError("recv_failed")>>, <<>>, FALSE, 0, "OSError")
    ELSE Outcome(w \o <<Sent(command), Recv(raw)>>, raw, FALSE, 0, "")
send_command_noread(w, command, raw) ==
    IF raw = SendError
    THEN Outcome(w \o <<Sent(command), SocketError("send_failed")>>, <<>>, FALSE, 0, "OSError")
    ELSE Outcome(w \o <<Sent(command)>>, <<>>, FALSE, 0, "")
send_command(w, command, raw) ==
    IF raw = SendError
    THEN Outcome(w \o <<Sent(command), SocketError("send_failed")>>, <<>>, FALSE, 0, "OSError")
    ELSE IF raw = RecvError
    THEN Outcome(w \o <<Sent(command), SocketError("recv_failed")>>, <<>>, FALSE, 0, "OSError")
    ELSE Outcome(w \o <<Sent(command), Recv(raw)>>, Strip(raw), FALSE, 0, "")

----------------------------------------------------------------------------
(* Command facade *)

Yes == <<"y","e","s">>
No == <<"n","o">>
NoText == <<>>
NoNums == <<>>

hello(w, raw) == send_command(w, Command("Hello", NoText, NoNums), raw)
stop_capture(w, raw) == send_command(w, Command("StopCapture", NoText, NoNums), raw)
get_capture_time(w, raw) == send_command(w, Command("GetCaptureTime", NoText, NoNums), raw)

\* is_capturing: response.lower() != "yes"
is_capturing_nolower(w, raw) ==
    LET r == send_command(w, Command("isCapturing", NoText, NoNums), raw)
    IN  Outcome(r.wire, r.ret, r.raised = "" /\ r.ret # Yes, 0, r.raised)
is_capturing(w, raw) ==
    LET r == send_command(w, Command("isCapturing", NoText, NoNums), raw)
    IN  Outcome(r.wire, r.ret, r.raised = "" /\ Lower(r.ret) # Yes, 0, r.raised)

\* is_not_capturing: response.lower() == "no"
is_not_capturing(w, raw) ==
    LET r == send_command(w, Command("isCapturing", NoText, NoNums), raw)
    IN  Outcome(r.wire, r.ret, r.raised = "" /\ Lower(r.ret) = No, 0, r.raised)

\* A mode parameter is a string or an integer
StrParam(s) == [isstr |-> TRUE, s |-> s, n |-> 0]
IntParam(n) == [isstr |-> FALSE, s |-> <<>>, n |-> n]
\* f"{param}"
Format(param) == IF param.isstr THEN param.s ELSE Numeral(param.n)

\* set_d0_mode .. set_a1_mode: the parameter goes into the command as it is
set_mode_lower(verb, w, param, raw) ==
    send_command(w, Command(verb, Lower(Format(param)), NoNums), raw)
set_mode(verb, w, param, raw) == send_command(w, Command(verb, Format(param), NoNums), raw)
set_d0_mode(w, param, raw) == set_mode("SetD0Mode", w, param, raw)
set_d1_mode(w, param, raw) == set_mode("SetD1Mode", w, param, raw)
set_a0_mode(w, param, raw) == set_mode("SetA0Mode", w, param, raw)
set_a1_mode(w, param, raw) == set_mode("SetA1Mode", w, param, raw)

\* mode_map of convert_d0_mode and convert_d1_mode: the code of an alias is its position - 1
DModeMap == << <<"t","r","i","s","t","a","t","e">>, <<"0","v">>, <<"3",".","3","v">>, <<"p","w","m">> >>
\* mode_map of convert_a0_mode
A0ModeMap == << <<"t","r","i","s","t","a","t","e">>, <<"0","v">>, <<"1","v">>, <<"2","v">>,
                <<"3","v">>, <<"3",".","3","v">>, <<"d","c">> >>
\* mode_map of convert_a1_mode
A1ModeMap == A0ModeMap \o << <<"r","a","m","p">>, <<"s","i","n","e">>,
                             <<"s","q","u","a","r","e">>, <<"t","r","i","a","n","g","l","e">> >>

\* The result of a convert_*_mode: the converted parameter, or the ValueError raised
Converted(param, raised) == [val |-> param, raised |-> raised]

\* convert_*_mode: a string is lowered and looked up (ValueError when absent),
\* anything else is returned as it is
convert_mode_lenient(mode_map, param) ==
    IF param.isstr /\ IsIn(Lower(param.s), mode_map)
    THEN Converted(IntParam(IndexIn(Lower(param.s), mode_map) - 1), "")
    ELSE Converted(param, "")
convert_mode_nolower(mode_map, param) ==
    IF param.isstr
    THEN IF IsIn(param.s, mode_map)
         THEN Converted(IntParam(IndexIn(param.s, mode_map) - 1), "")
         ELSE Converted(param, "ValueError")
    ELSE Converted(param, "")
convert_mode(mode_map, param) ==
    IF param.isstr
    THEN IF IsIn(Lower(param.s), mode_map)
         THEN Converted(IntParam(IndexIn(Lower(param.s), mode_map) - 1), "")
         ELSE Converted(param, "ValueError")
    ELSE Converted(param, "")
convert_d0_mode(param) == convert_mode(DModeMap, param)
convert_d1_mode(param) == convert_mode(DModeMap, param)
convert_a0_mode(param) == convert_mode(A0ModeMap, param)
convert_a1_mode(param) == convert_mode(A1ModeMap, param)

\* set_cursor_current / set_cursor_x1 / set_cursor_x2: a negative time is counted
\* back from the capture time, which is asked for first
set_cursor_noclamp(verb, w, time, raws) ==
    IF time < 0
    THEN LET g == get_capture_time(w, raws[1])
             capture_time == ParseFloat(g.ret)
         IN  IF g.raised # "" THEN g
             ELSE IF capture_time < 0
             THEN Outcome(g.wire, <<>>, FALSE, 0, "ValueError")
             ELSE send_command(g.wire, Command(verb, NoText, <<capture_time + time>>), raws[2])
    ELSE send_command(w, Command(verb, NoText, <<time>>), raws[2])
set_cursor_always(verb, w, time, raws) ==
    LET g == get_capture_time(w, raws[1])
        capture_time == ParseFloat(g.ret)
    IN  IF g.raised # "" THEN g
        ELSE IF capture_time < 0
        THEN Outcome(g.wire, <<>>, FALSE, 0, "ValueError")
        ELSE send_command(g.wire, Command(verb, NoText,
                 <<IF time < 0 THEN Max(capture_time + time, 0) ELSE time>>), raws[2])
set_cursor_fallback(verb, w, time, raws) ==
    IF time < 0
    THEN LET g == get_capture_time(w, raws[1])
             capture_time == Max(ParseFloat(g.ret), 0)
         IN  send_command(g.wire, Command(verb, NoText, <<Max(capture_time + time, 0)>>), raws[2])
    ELSE send_command(w, Command(verb, NoText, <<time>>), raws[2])
set_cursor(verb, w, time, raws) ==
    IF time < 0
    THEN LET g == get_capture_time(w, raws[1])
             capture_time == ParseFloat(g.ret)
         IN  IF g.raised # "" THEN g
             ELSE IF capture_time < 0
             THEN Outcome(g.wire, <<>>, FALSE, 0, "ValueError")
             ELSE send_command(g.wire, Command(verb, NoText, <<Max(capture_time + time, 0)>>), raws[2])
    ELSE send_command(w, Command(verb, NoText, <<time>>), raws[2])
set_cursor_current(w, time, raws) == set_cursor("SetCursorCurrent", w, time, raws)
set_cursor_x1(w, time, raws) == set_cursor("SetCursorX1", w, time, raws)
set_cursor_x2(w, time, raws) == set_cursor("SetCursorX2", w, time, raws)

\* zoom_from: resolve negative endpoints, order them, widen a degenerate range
zoom_from_noswap(w, start, end, raws) ==
    LET neg == start < 0 \/ end < 0
        g1 == IF neg THEN get_capture_time(w, raws[1]) ELSE Outcome(w, <<>>, FALSE, 0, "")
        c1 == IF neg THEN ParseFloat(g1.ret) ELSE 0
    IN  IF g1.raised # "" THEN g1
        ELSE IF c1 < 0
        THEN Outcome(g1.wire, <<>>, FALSE, 0, "ValueError")
        ELSE LET s2 == IF start < 0 THEN Max(c1 + start, 0) ELSE start
                 e2 == IF end < 0 THEN Max(c1 + end, 0) ELSE end
                 g2 == IF s2 = e2 /\ s2 = 0 THEN get_capture_time(g1.wire, raws[2]) ELSE g1
                 c2 == IF s2 = e2 /\ s2 = 0 THEN ParseFloat(g2.ret) ELSE 0
             IN  IF g2.raised # "" THEN g2
                 ELSE IF c2 < 0
                 THEN Outcome(g2.wire, <<>>, FALSE, 0, "ValueError")
                 ELSE LET e3 == IF s2 = e2 /\ s2 = 0 THEN Min(Eps, c2) ELSE e2
                          s3 == IF s2 = e2 /\ s2 # 0 THEN Max(e2 - Eps, 0) ELSE s2
                      IN  send_command(g2.wire, Command("ZoomFrom", NoText, <<s3, e3>>), raws[3])
zoom_from_perneg(w, start, end, raws) ==
    LET neg == start < 0 \/ end < 0
        g0 == IF neg THEN get_capture_time(w, raws[1]) ELSE Outcome(w, <<>>, FALSE, 0, "")
        g1 == IF start < 0 /\ end < 0 /\ g0.raised = "" THEN get_capture_time(g0.wire, raws[1]) ELSE g0
        c1 == IF neg THEN ParseFloat(g1.ret) ELSE 0
    IN  IF g1.raised # "" THEN g1
        ELSE IF c1 < 0
        THEN Outcome(g1.wire, <<>>, FALSE, 0, "ValueError")
        ELSE LET s1 == IF start < 0 THEN Max(c1 + start, 0) ELSE start
                 e1 == IF end < 0 THEN Max(c1 + end, 0) ELSE end
                 s2 == IF e1 < s1 THEN e1 ELSE s1
                 e2 == IF e1 < s1 THEN s1 ELSE e1
                 g2 == IF s2 = e2 /\ s2 = 0 THEN get_capture_time(g1.wire, raws[2]) ELSE g1
                 c2 == IF s2 = e2 /\ s2 = 0 THEN ParseFloat(g2.ret) ELSE 0
             IN  IF g2.raised # "" THEN g2
                 ELSE IF c2 < 0
                 THEN Outcome(g2.wire, <<>>, FALSE, 0, "ValueError")
                 ELSE LET e3 == IF s2 = e2 /\ s2 = 0 THEN Min(Eps, c2) ELSE e2
                          s3 == IF s2 = e2 /\ s2 # 0 THEN Max(e2 - Eps, 0) ELSE s2
                      IN  send_command(g2.wire, Command("ZoomFrom", NoText, <<s3, e3>>), raws[3])
zoom_from(w, start, end, raws) ==
    LET neg == start < 0 \/ end < 0
        g1 == IF neg THEN get_capture_time(w, raws[1]) ELSE Outcome(w, <<>>, FALSE, 0, "")
        c1 == IF neg THEN ParseFloat(g1.ret) ELSE 0
    IN  IF g1.raised # "" THEN g1
        ELSE IF c1 < 0
        THEN Outcome(g1.wire, <<>>, FALSE, 0, "ValueError")
        ELSE LET s1 == IF start < 0 THEN Max(c1 + start, 0) ELSE start
                 e1 == IF end < 0 THEN Max(c1 + end, 0) ELSE end
                 s2 == IF e1 < s1 THEN e1 ELSE s1
                 e2 == IF e1 < s1 THEN s1 ELSE e1
                 g2 == IF s2 = e2 /\ s2 = 0 THEN get_capture_time(g1.wire, raws[2]) ELSE g1
                 c2 == IF s2 = e2 /\ s2 = 0 THEN ParseFloat(g2.ret) ELSE 0
             IN  IF g2.raised # "" THEN g2
                 ELSE IF c2 < 0
                 THEN Outcome(g2.wire, <<>>, FALSE, 0, "ValueError")
                 ELSE LET e3 == IF s2 = e2 /\ s2 = 0 THEN Min(Eps, c2) ELSE e2
                          s3 == IF s2 = e2 /\ s2 # 0 THEN Max(e2 - Eps, 0) ELSE s2
                      IN  send_command(g2.wire, Command("ZoomFrom", NoText, <<s3, e3>>), raws[3])

\* zoom_cursors: ask for the two cursors, give up on an answer that starts with ERROR
\* (it is returned), then zoom_from the one to the other
zoom_cursors(w, raws) ==
    LET x1 == send_command(w, Command("GetCursorX1", NoText, NoNums), raws[1])
    IN  IF x1.raised # "" \/ StartsWith(x1.ret, <<"E","R","R","O","R">>) THEN x1
        ELSE IF ~IsFloat(x1.ret) THEN Outcome(x1.wire, <<>>, FALSE, 0, "ValueError")
        ELSE LET x2 == send_command(x1.wire, Command("GetCursorX2", NoText, NoNums), raws[2])
             IN  IF x2.raised # "" \/ StartsWith(x2.ret, <<"E","R","R","O","R">>) THEN x2
                 ELSE IF ~IsFloat(x2.ret) THEN Outcome(x2.wire, <<>>, FALSE, 0, "ValueError")
                 ELSE zoom_from(x2.wire, FloatValue(x1.ret), FloatValue(x2.ret),
                                <<raws[3], raws[4], raws[5]>>)

\* The working directory of the client, against which os.path.abspath resolves a name
Cwd == <<"/","w">>
DotActive == <<".","a","c","t","i","v","e">>
DotCsv == <<".","c","s","v">>
DotPng == <<".","p","n","g">>

\* os.path.splitext(path)[1]: the extension starts at the last dot that follows a
\* character other than a dot
HasExtension(path) == \E i \in 2..Len(path) : path[i] = "." /\ \E j \in 1..(i - 1) : path[j] # "."

\* get_absolute_path on a POSIX host: append the default extension when the name has
\* none, then make the name absolute
get_absolute_path(path, default_extension) ==
    LET named == IF default_extension # <<>> /\ ~HasExtension(path)
                 THEN path \o default_extension ELSE path
    IN  IF named # <<>> /\ named[1] = "/" THEN named ELSE Cwd \o <<"/">> \o named

\* open_capture: stop a running capture (as is_capturing tells it), then open
open_capture(w, filename, raws) ==
    LET c == is_capturing(w, raws[1])
        s == IF c.retb THEN stop_capture(c.wire, raws[2]) ELSE c
    IN  IF s.raised # "" THEN s
        ELSE send_command(s.wire, Command("OpenCapture", get_absolute_path(filename, DotActive), NoNums), raws[3])

----------------------------------------------------------------------------
(* The instrument, as a fake transport sees it *)

NL == <<"\n">>
OkReply == <<"O","K">> \o NL
ErrorReply == <<"E","R","R","O","R">> \o NL

\* Raw answers to isCapturing
CaptureReplies == { Yes \o NL, <<"Y","E","S">> \o NL, <<"Y","e","s">>, <<" ","y","E","s"," ">> \o NL,
                    No \o NL, <<"N","O">>, <<>>, ErrorReply, <<"y","e","s","s">> \o NL }

\* Raw answer to GetCaptureTime when the capture lasts c units
TimeReply(c) == Numeral(c) \o NL

\* Raw answers to any command
RawReplies == CaptureReplies \cup { OkReply, <<"O","K","\r","\n">>, <<"\n","\n">>, <<"a","\n","b","\n">>,
                                    <<"\t","O","K"," ">> }

\* Raw answers to GetCursorX1 and GetCursorX2, a failing read among them
CursorReplies == { Numeral(0) \o NL, Numeral(2) \o NL, <<"-","1">> \o NL, ErrorReply, <<"?">>, RecvError }

\* Texts given to send_command
CommandTexts == { <<"H","e","l","l","o">>, <<"S","e","t","D","0","P","W","M"," ","2","5">>, <<>>, <<"G","o","\n">> }

Times == (0 - MaxT)..MaxT
Durations == 0..MaxC

FileNames == { <<"t","e","s","t">>, <<"t","e","s","t",".","a","c","t","i","v","e">>, <<"c",".","c","s","v">> }

ModeParams == { StrParam(s) : s \in { <<"P","W","M">>, <<"p","w","m">>, <<"P","w","m">>,
                                      <<"b","o","g","u","s">>, <<"3">>, <<"0","V">>, <<"3",".","3","v">>,
                                      <<"T","R","I","S","T","A","T","E">>, <<"s","i","n","e">>,
                                      <<"S","I","N","E">>,
                                      <<"S","i","N","e">>, <<"D","C">>, <<"d","c">>, <<"1","V">>,
                                      <<"2","v">>, <<"3","V">>, <<"r","a","m","p">>,
                                      <<"R","A","M","P">>, <<"S","q","u","a","r","e">>,
                                      <<"T","R","I","A","N","G","L","E">>,
                                      <<"t","r","i","s","t","a","t","e">>, <<>>, <<"s","i","n">>,
                                      <<"s","i","n","e","s">>, <<" ","s","i","n","e">>,
                                      <<"1","0">> } }
              \cup { IntParam(n) : n \in 0..3 }

----------------------------------------------------------------------------
(* Facade calls against a fake transport that records the traffic of the call *)

\* A call: the method, its arguments, the capture time C of the instrument during the
\* call, and what the method returned or raised
Call(op, text, isstr, nums, C, out) ==
    [op |-> op, text |-> text, isstr |-> isstr, nums |-> nums, C |-> C,
     ret |-> out.ret, retb |-> out.retb, retn |-> out.retn, raised |-> out.raised]

NoCall == Call("none", <<>>, FALSE, <<>>, 0, Outcome(<<>>, <<>>, FALSE, 0, ""))

NoArgs == [given |-> {}]

DiscoveryIdle ==
    /\ probe = <<>>
    /\ accepting = {}
    /\ available_ports_dict = <<>>
    /\ discovered = "idle"

CliIdle ==
    /\ args = NoArgs
    /\ pc = "idle"
    /\ exit_code = -1

Init ==
    /\ wire = <<>>
    /\ call = NoCall
    /\ DiscoveryIdle
    /\ CliIdle

FacadeUnchanged == UNCHANGED <<probe, accepting, available_ports_dict, discovered, args, pc, exit_code>>

CallIsCapturing ==
    \E raw \in CaptureReplies :
        LET out == is_capturing(<<>>, raw)
        IN  /\ wire' = out.wire
            /\ call' = Call("is_capturing", <<>>, FALSE, <<>>, 0, out)
            /\ FacadeUnchanged

CallIsNotCapturing ==
    \E raw \in CaptureReplies :
        LET out == is_not_capturing(<<>>, raw)
        IN  /\ wire' = out.wire
            /\ call' = Call("is_not_capturing", <<>>, FALSE, <<>>, 0, out)
            /\ FacadeUnchanged

CallOpenCapture ==
    \E filename \in FileNames, raw \in CaptureReplies :
        LET out == open_capture(<<>>, filename, <<raw, OkReply, OkReply>>)
        IN  /\ wire' = out.wire
            /\ call' = Call("open_capture", filename, TRUE, <<>>, 0, out)
            /\ FacadeUnchanged

CallSetD0Mode ==
    \E param \in ModeParams :
        LET out == set_d0_mode(<<>>, param, OkReply)
        IN  /\ wire' = out.wire
            /\ call' = Call("set_d0_mode", param.s, param.isstr, <<param.n>>, 0, out)
            /\ FacadeUnchanged

CallConvertD0Mode ==
    \E param \in ModeParams :
        LET c == convert_d0_mode(param)
        IN  /\ wire' = <<>>
            /\ call' = Call("convert_d0_mode", param.s, param.isstr, <<param.n>>, 0,
                            Outcome(<<>>, c.val.s, c.val.isstr, c.val.n, c.raised))
            /\ FacadeUnchanged

CallConvertD1Mode ==
    \E param \in ModeParams :
        LET c == convert_d1_mode(param)
        IN  /\ wire' = <<>>
            /\ call' = Call("convert_d1_mode", param.s, param.isstr, <<param.n>>, 0,
                            Outcome(<<>>, c.val.s, c.val.isstr, c.val.n, c.raised))
            /\ FacadeUnchanged

CallConvertA0Mode ==
    \E param \in ModeParams :
        LET c == convert_a0_mode(param)
        IN  /\ wire' = <<>>
            /\ call' = Call("convert_a0_mode", param.s, param.isstr, <<param.n>>, 0,
                            Outcome(<<>>, c.val.s, c.val.isstr, c.val.n, c.raised))
            /\ FacadeUnchanged

CallConvertA1Mode ==
    \E param \in ModeParams :
        LET c == convert_a1_mode(param)
        IN  /\ wire' = <<>>
            /\ call' = Call("convert_a1_mode", param.s, param.isstr, <<param.n>>, 0,
                            Outcome(<<>>, c.val.s, c.val.isstr, c.val.n, c.raised))
            /\ FacadeUnchanged

\* What becomes of a GetCaptureTime query: a number comes back, something that is
\* not a number comes back, or the socket fails in sendall or in recv
TimeKinds == {"number", "not a number", "send error", "recv error"}
TimeAnswer(C, kind) ==
    CASE kind = "number" -> TimeReply(C)
      [] kind = "not a number" -> ErrorReply
      [] kind = "send error" -> SendError
      [] kind = "recv error" -> RecvError

\* The answers to the two GetCaptureTime queries and to the command that depends on them
TimeReplies(C, kind) == <<TimeAnswer(C, kind), TimeAnswer(C, kind), OkReply>>

CallSetCursorCurrent ==
    \E time \in Times, C \in Durations, kind \in TimeKinds :
        LET out == set_cursor_current(<<>>, time, <<TimeReplies(C, kind)[1], OkReply>>)
        IN  /\ wire' = out.wire
            /\ call' = Call("set_cursor_current", <<>>, FALSE, <<time>>, C, out)
            /\ FacadeUnchanged

CallSetCursorX1 ==
    \E time \in Times, C \in Durations, kind \in TimeKinds :
        LET out == set_cursor_x1(<<>>, time, <<TimeReplies(C, kind)[1], OkReply>>)
        IN  /\ wire' = out.wire
            /\ call' = Call("set_cursor_x1", <<>>, FALSE, <<time>>, C, out)
            /\ FacadeUnchanged

CallSetCursorX2 ==
    \E time \in Times, C \in Durations, kind \in TimeKinds :
        LET out == set_cursor_x2(<<>>, time, <<TimeReplies(C, kind)[1], OkReply>>)
        IN  /\ wire' = out.wire
            /\ call' = Call("set_cursor_x2", <<>>, FALSE, <<time>>, C, out)
            /\ FacadeUnchanged

CallZoomFrom ==
    \E start \in Times, end \in Times, C \in Durations, kind \in TimeKinds :
        LET out == zoom_from(<<>>, start, end, TimeReplies(C, kind))
        IN  /\ wire' = out.wire
            /\ call' = Call("zoom_from", <<>>, FALSE, <<start, end>>, C, out)
            /\ FacadeUnchanged

CallSendCommand ==
    \E text \in CommandTexts, raw \in RawReplies \cup {SendError, RecvError} :
        LET out == send_command(<<>>, Command("", text, NoNums), raw)
        IN  /\ wire' = out.wire
            /\ call' = Call("send_command", text, TRUE, <<>>, 0, out)
            /\ FacadeUnchanged

CallZoomCursors ==
    \E x1 \in CursorReplies, x2 \in CursorReplies, C \in Durations, kind \in {"number", "not a number"} :
        LET out == zoom_cursors(<<>>, <<x1, x2>> \o TimeReplies(C, kind))
        IN  /\ wire' = out.wire
            /\ call' = Call("zoom_cursors", <<>>, FALSE, <<>>, C, out)
            /\ FacadeUnchanged

Next ==
    \/ CallSendCommand
    \/ CallZoomCursors
    \/ CallIsCapturing
    \/ CallIsNotCapturing
    \/ CallOpenCapture
    \/ CallSetD0Mode
    \/ CallConvertD0Mode
    \/ CallConvertD1Mode
    \/ CallConvertA0Mode
    \/ CallConvertA1Mode
    \/ CallSetCursorCurrent
    \/ CallSetCursorX1
    \/ CallSetCursorX2
    \/ CallZoomFrom

Spec == Init /\ [][Next]_vars

----------------------------------------------------------------------------
(* Reading the recorded traffic *)

IsSend(e) == e.dir = "send"
IsRecv(e) == e.dir = "recv"
SentCmds(w) == LET sends == SelectSeq(w, IsSend) IN [i \in 1..Len(sends) |-> sends[i].cmd]
Verbs(w) == LET cmds == SentCmds(w) IN [i \in 1..Len(cmds) |-> cmds[i].verb]
Replies(w) == LET recvs == SelectSeq(w, IsRecv) IN [i \in 1..Len(recvs) |-> recvs[i].raw]

----------------------------------------------------------------------------
(* Claims about the facade *)

\* All spellings of "yes" in upper and lower case
YesForms == { <<a, b, c>> : a \in {"y", "Y"}, b \in {"e", "E"}, c \in {"s", "S"} }

\* The instrument said it is capturing: its (stripped) answer to isCapturing is a "yes"
SaidYes(w) == Len(Replies(w)) >= 1 /\ Strip(Replies(w)[1]) \in YesForms

\* C1 (as stated): open_capture, when the instrument answers "yes" to isCapturing,
\* sends StopCapture and then OpenCapture <filename>.active, in that order.
C1_StopBeforeOpen ==
    (call.op = "open_capture" /\ SaidYes(wire)) =>
        /\ Verbs(wire) = <<"isCapturing", "StopCapture", "OpenCapture">>
        /\ SentCmds(wire)[3].text = get_absolute_path(call.text, DotActive)

\* The codes of the D0 aliases, written out
D0Code(alias) ==
    CASE alias = <<"t","r","i","s","t","a","t","e">> -> 0
      [] alias = <<"0","v">> -> 1
      [] alias = <<"3",".","3","v">> -> 2
      [] alias = <<"p","w","m">> -> 3
      [] OTHER -> -1

IsD0Alias(text) == D0Code(Lower(text)) >= 0

CursorVerb(op) ==
    CASE op = "set_cursor_current" -> "SetCursorCurrent"
      [] op = "set_cursor_x1" -> "SetCursorX1"
      [] op = "set_cursor_x2" -> "SetCursorX2"
      [] OTHER -> ""

IsCursorOp(op) == CursorVerb(op) # ""

\* The last command of the call
LastCmd(w) == SentCmds(w)[Len(SentCmds(w))]

\* A time as the helper resolves it against a capture of C units
Resolved(t, C) == IF t < 0 THEN Max(C + t, 0) ELSE t

\* C7 (as stated): the ZoomFrom command of zoom_from carries start' <= end', both in
\* [0, C], and end' - start' >= 0.001 whenever C >= 0.001.
C7_ZoomWithinCapture ==
    (call.op = "zoom_from" /\ call.raised = "") =>
        LET s == LastCmd(wire).nums[1]
            e == LastCmd(wire).nums[2]
        IN  /\ LastCmd(wire).verb = "ZoomFrom"
            /\ s <= e
            /\ 0 <= s /\ e <= call.C
            /\ call.C >= Eps => e - s >= Eps

\* C7 (amended): the ZoomFrom command carries 0 <= start' <= end', and nothing is
\* clamped to the capture time C: end' <= max(C, start, end), so both are within
\* [0, C] when both inputs are negative.  Endpoints that differ once resolved are
\* sent as they are, in ascending order, however close; only a range that is
\* degenerate once resolved is widened, to [0, min(0.001, C)] at 0 and to
\* [max(x - 0.001, 0), x] at x > 0, which is 0.001 wide when C >= 0.001 at 0 and
\* when x >= 0.001.
C7_ZoomNormalised ==
    (call.op = "zoom_from" /\ call.raised = "") =>
        LET s == LastCmd(wire).nums[1]
            e == LastCmd(wire).nums[2]
            a == Resolved(call.nums[1], call.C)
            b == Resolved(call.nums[2], call.C)
        IN  /\ LastCmd(wire).verb = "ZoomFrom"
            /\ 0 <= s /\ s <= e
            /\ e <= Max(call.C, Max(call.nums[1], call.nums[2]))
            /\ (call.nums[1] < 0 /\ call.nums[2] < 0) => e <= call.C
            /\ a # b => (s = Min(a, b) /\ e = Max(a, b))
            /\ (a = b /\ a = 0) => (s = 0 /\ e = Min(Eps, call.C))
            /\ (a = b /\ a > 0) => (s = Max(a - Eps, 0) /\ e = a)
            /\ (a = b /\ ((a = 0 /\ call.C >= Eps) \/ a >= Eps)) => e - s = Eps

\* A non-negative input beyond the capture time stays beyond it, in swapped order
C7_Witness ==
    /\ call.op = "zoom_from"
    /\ call.nums = <<MaxT, 1>>
    /\ call.C = 0
    /\ LastCmd(wire) = Command("ZoomFrom", NoText, <<1, MaxT>>)

\* C8 (as stated): for non-negative times the cursor-set operations and zoom_from
\* use the times unchanged and send the dependent command only, no GetCaptureTime.
C8_NonNegativeUntouched ==
    /\ (IsCursorOp(call.op) /\ call.nums[1] >= 0) =>
          SentCmds(wire) = <<Command(CursorVerb(call.op), NoText, call.nums)>>
    /\ (call.op = "zoom_from" /\ call.nums[1] >= 0 /\ call.nums[2] >= 0) =>
          /\ Verbs(wire) = <<"ZoomFrom">>
          /\ LastCmd(wire).nums \in {call.nums, <<call.nums[2], call.nums[1]>>}

\* C8 (amended): for non-negative times the cursor-set operations send only the
\* SetCursor* command with the time unchanged; zoom_from sends only ZoomFrom with
\* the two times unchanged (in ascending order) when they differ; given twice the
\* same time x > 0 it still sends only ZoomFrom, but with start moved to
\* max(x - 0.001, 0); given 0 and 0 it first sends GetCaptureTime and then
\* ZoomFrom 0 min(0.001, C).
C8_NonNegativeExceptDegenerate ==
    /\ (IsCursorOp(call.op) /\ call.nums[1] >= 0) =>
          /\ SentCmds(wire) = <<Command(CursorVerb(call.op), NoText, call.nums)>>
          /\ call.raised = ""
    /\ (call.op = "zoom_from" /\ call.nums[1] >= 0 /\ call.nums[2] >= 0) =>
          LET a == call.nums[1]
              b == call.nums[2]
          IN  /\ a # b => SentCmds(wire) = <<Command("ZoomFrom", NoText, <<Min(a, b), Max(a, b)>>)>>
              /\ (a = b /\ a > 0) =>
                    SentCmds(wire) = <<Command("ZoomFrom", NoText, <<Max(a - Eps, 0), a>>)>>
              /\ (a = b /\ a = 0 /\ call.raised = "") =>
                    SentCmds(wire) = <<Command("GetCaptureTime", NoText, NoNums),
                                       Command("ZoomFrom", NoText, <<0, Min(Eps, call.C)>>)>>
              /\ (a = b /\ a = 0 /\ call.raised # "") => Verbs(wire) = <<"GetCaptureTime">>

C8_Witness ==
    /\ call.op = "zoom_from"
    /\ call.nums = <<0, 0>>
    /\ call.C = MaxC
    /\ Verbs(wire) = <<"GetCaptureTime", "ZoomFrom">>

\* C9: for a negative time t and a capture time C, the cursor-set operations send
\* GetCaptureTime first and then SetCursor* with max(C + t, 0).
C9_NegativeCursor ==
    (IsCursorOp(call.op) /\ call.nums[1] < 0 /\ call.raised = "") =>
        SentCmds(wire) = <<Command("GetCaptureTime", NoText, NoNums),
                           Command(CursorVerb(call.op), NoText,
                                   <<IF call.C + call.nums[1] > 0 THEN call.C + call.nums[1] ELSE 0>>)>>

C9_Witness ==
    /\ call.op = "set_cursor_x1"
    /\ call.nums = <<0 - MaxT>>
    /\ call.C = MaxC - 1
    /\ LastCmd(wire) = Command("SetCursorX1", NoText, <<0>>)

----------------------------------------------------------------------------
(* Port discovery: find_available_ports *)

BasePort == 37800
NumPorts == 11
CandidatePorts == BasePort..(BasePort + NumPorts - 1)

\* The ports on which the fake listeners of a run may accept connections
Listeners == {BasePort, BasePort + 1, BasePort + 5, BasePort + NumPorts - 1}

\* What a connection attempt of a probe can come to
ProbeEnds(port, S) == IF port \in S THEN {"connected"} ELSE {"refused", "timeout", "exception"}

\* check_port: the port when connect_ex returned 0, else None (0 here); an exception
\* is caught and gives None too. A result of -1 stands for an exception that leaves
\* the task, which future.result() raises again in the caller.
check_port_uncaught(available_port, how) ==
    IF how = "connected" THEN available_port ELSE IF how = "exception" THEN -1 ELSE 0
check_port(available_port, how) == IF how = "connected" THEN available_port ELSE 0

\* available_id = available_port - 37800 + 1
instance_id_zero_based(available_port) == available_port - BasePort
instance_id(available_port) == available_port - BasePort + 1

\* available_ports_dict[available_id] = available_port
Store(dict, key, value) == [k \in DOMAIN dict \cup {key} |-> IF k = key THEN value ELSE dict[k]]

DiscoveryInit ==
    /\ wire = <<>>
    /\ call = NoCall
    /\ CliIdle
    /\ accepting \in SUBSET Listeners
    /\ probe = [port \in CandidatePorts |-> [status |-> "pending", result |-> 0]]
    /\ available_ports_dict = <<>>
    /\ discovered = "running"

\* A task of the pool runs check_port for its port, to the end
ProbeCompletes(port) ==
    /\ discovered = "running"
    /\ probe[port].status = "pending"
    /\ \E how \in ProbeEnds(port, accepting) :
          probe' = [probe EXCEPT ![port] = [status |-> "done", result |-> check_port(port, how)]]
    /\ UNCHANGED <<wire, call, accepting, available_ports_dict, discovered, args, pc, exit_code>>

\* One round of the as_completed loop: take a finished future, store its port if any
CollectResult(port) ==
    /\ discovered = "running"
    /\ probe[port].status = "done"
    /\ probe' = [probe EXCEPT ![port].status = "collected"]
    /\ available_ports_dict' =
          IF probe[port].result > 0
          THEN Store(available_ports_dict, instance_id(probe[port].result), probe[port].result)
          ELSE available_ports_dict
    /\ discovered' = IF probe[port].result < 0 THEN "failed" ELSE discovered
    /\ UNCHANGED <<wire, call, accepting, args, pc, exit_code>>

\* The loop ends when as_completed has yielded every future; then the dict is returned
AllCollected(pr) == \A port \in CandidatePorts : pr[port].status = "collected"

ReturnPorts ==
    /\ discovered = "running"
    /\ AllCollected(probe)
    /\ discovered' = "returned"
    /\ UNCHANGED <<wire, call, probe, accepting, available_ports_dict, args, pc, exit_code>>

DiscoveryNext ==
    \/ \E port \in CandidatePorts : ProbeCompletes(port)
    \/ \E port \in CandidatePorts : CollectResult(port)
    \/ ReturnPorts

DiscoverySpec == DiscoveryInit /\ [][DiscoveryNext]_vars

\* C10: find_available_ports returns exactly {p - 37800 + 1 : p} for the accepting
\* ports p, whatever the order in which the probes complete, and only after all 11
\* probes have completed.
C10_DiscoveryMapping ==
    discovered = "returned" =>
        /\ DOMAIN available_ports_dict = {p - 37799 : p \in accepting}
        /\ \A id \in DOMAIN available_ports_dict : available_ports_dict[id] = 37799 + id
        /\ \A port \in 37800..37810 : probe[port].status # "pending"

\* Scenario 3: only 37801 and 37805 accept; the result is {2: 37801, 6: 37805}
C10_Witness ==
    /\ discovered = "returned"
    /\ accepting = {37801, 37805}
    /\ available_ports_dict = [id \in {2, 6} |-> IF id = 2 THEN 37801 ELSE 37805]

\* C11: a probe that is refused, times out or raises gives "not available" and never
\* makes find_available_ports fail: the call never ends by an error, a port that does
\* not accept is never stored, and the returned mapping holds every live port (it is
\* empty when no port accepts).
C11_FailedProbeAbsorbed ==
    /\ discovered \in {"running", "returned"}
    /\ \A port \in CandidatePorts :
          (port \notin accepting /\ probe[port].status # "pending") => probe[port].result = 0
    /\ \A id \in DOMAIN available_ports_dict : available_ports_dict[id] \in accepting
    /\ discovered = "returned" =>
          /\ \A port \in accepting : \E id \in DOMAIN available_ports_dict : available_ports_dict[id] = port
          /\ accepting = {} => available_ports_dict = <<>>

\* Ten probes failed, the one live port is returned
C11_Witness ==
    /\ discovered = "returned"
    /\ accepting = {BasePort + NumPorts - 1}
    /\ \A port \in CandidatePorts \ accepting : probe[port] = [status |-> "collected", result |-> 0]
    /\ DOMAIN available_ports_dict = {NumPorts}
    /\ available_ports_dict[NumPorts] = BasePort + NumPorts - 1

----------------------------------------------------------------------------
(* The driver of the command line *)

MaxOpts == 2    \* at most MaxOpts options are given on a command line

\* 1 s in units of 0.0005 s
Second == 2000

\* A block of the driver: the option it tests, what it calls, the verb and the
\* default extension of the file name
Step_swapped(opt, kind, verb, ext) ==
    [opt |-> opt, kind |-> kind, ext |-> ext,
     verb |-> IF verb = "SaveCapture" THEN "OpenConfiguration"
              ELSE IF verb = "OpenConfiguration" THEN "SaveCapture" ELSE verb]
Step(opt, kind, verb, ext) == [opt |-> opt, kind |-> kind, verb |-> verb, ext |-> ext]

\* The blocks of the driver between connect and disconnect, in the order of the source
Steps == <<
    Step("not_capturing", "not_capturing", "isCapturing", NoText),
    Step("demo", "demo", "", NoText),
    Step("save_configuration", "file", "SaveConfiguration", DotActive),
    Step("append_note", "text", "AppendNote", NoText),
    Step("set_cursor_current", "cursor", "SetCursorCurrent", NoText),
    Step("set_cursor_x1", "cursor", "SetCursorX1", NoText),
    Step("set_cursor_x2", "cursor", "SetCursorX2", NoText),
    Step("zoom_from", "zoom", "ZoomFrom", NoText),
    Step("zoom_range", "zoom", "ZoomFrom", NoText),
    Step("search", "text", "Search", NoText),
    Step("get_capture_size", "plain", "GetCaptureSize", NoText),
    Step("get_capture_time", "plain", "GetCaptureTime", NoText),
    Step("get_logic", "plain", "GetLogic", NoText),
    Step("get_ch1", "plain", "GetCH1", NoText),
    Step("get_ch2", "plain", "GetCH2", NoText),
    Step("get_ch3", "plain", "GetCH3", NoText),
    Step("save_capture", "file", "SaveCapture", DotActive),
    Step("save_between_cursors", "file", "SaveBetweenCursors", DotActive),
    Step("export_between_cursors", "file", "ExportBetweenCursors", DotCsv),
    Step("save_configuration", "file", "SaveConfiguration", DotActive),
    Step("save_screenshot", "file", "SaveScreenshot", DotPng),
    Step("open_configuration", "file", "OpenConfiguration", DotActive),
    Step("open_capture", "open_capture", "OpenCapture", DotActive),
    Step("set_d0_mode", "mode", "SetD0Mode", NoText),
    Step("set_d0_pwm", "value", "SetD0PWM", NoText),
    Step("set_d1_mode", "mode", "SetD1Mode", NoText),
    Step("set_d1_pwm", "value", "SetD1PWM", NoText),
    Step("set_a0_mode", "mode", "SetA0Mode", NoText),
    Step("set_a0_dc_level", "value", "SetA0DCLEVEL", NoText),
    Step("set_a1_mode", "mode", "SetA1Mode", NoText),
    Step("set_a1_dc_level", "value", "SetA1DCLEVEL", NoText),
    Step("set_a1_minimum", "value", "SetA1MINIMUM", NoText),
    Step("set_a1_maximum", "value", "SetA1MAXIMUM", NoText),
    Step("set_a1_steps", "value", "SetA1Steps", NoText),
    Step("hello", "plain", "Hello", NoText),
    Step("is_connected", "plain", "isConnected", NoText),
    Step("start_capture", "plain", "StartCapture", NoText),
    Step("stop_capture", "plain", "StopCapture", NoText),
    Step("is_capturing", "plain", "isCapturing", NoText),
    Step("clear_note", "plain", "ClearNote", NoText),
    Step("zoom_all", "plain", "ZoomAll", NoText),
    Step("show_inputs", "plain", "ShowInputs", NoText),
    Step("show_outputs", "plain", "ShowOutputs", NoText),
    Step("show_list", "plain", "ShowList", NoText),
    Step("show_settings", "plain", "ShowSettings", NoText),
    Step("show_notes", "plain", "ShowNotes", NoText),
    Step("close_tabs", "plain", "CloseTabs", NoText),
    Step("new_capture", "plain", "NewCapture", NoText),
    Step("exit", "plain", "Exit", NoText) >>
Options == {Steps[i].opt : i \in 1..Len(Steps)} \cup {"id", "port", "generate_bash_completion"}

ModeOptions == {"set_d0_mode", "set_d1_mode", "set_a0_mode", "set_a1_mode"}

\* choices= of --set-d0-mode and --set-d1-mode, of --set-a0-mode, of --set-a1-mode
DChoices == { <<"0">>, <<"1">>, <<"2">>, <<"3">>, <<"T","R","I","S","T","A","T","E">>,
              <<"0","V">>, <<"3",".","3","V">>, <<"P","W","M">> }
A0Choices == { <<"0">>, <<"1">>, <<"2">>, <<"3">>, <<"4">>, <<"5">>, <<"6">>,
               <<"T","R","I","S","T","A","T","E">>, <<"0","V">>, <<"1","V">>, <<"2","V">>,
               <<"3","V">>, <<"3",".","3","V">>, <<"D","C">> }
A1Choices == A0Choices \cup { <<"7">>, <<"8">>, <<"9">>, <<"1","0">>, <<"R","A","M","P">>,
               <<"S","I","N","E">>, <<"S","Q","U","A","R","E">>, <<"T","R","I","A","N","G","L","E">> }

\* argparse on a mode option: type= is applied to the word, the result must be one
\* of choices=
ParsedMode(opt, word) == IF opt \in {"set_d0_mode", "set_d1_mode"} THEN Upper(word) ELSE word
ModeChoices(opt) ==
    CASE opt \in {"set_d0_mode", "set_d1_mode"} -> DChoices
      [] opt = "set_a0_mode" -> A0Choices
      [] opt = "set_a1_mode" -> A1Choices
      [] OTHER -> {}
ArgparseAccepts(a) == \A opt \in ModeOptions \cap a.given : ParsedMode(opt, a.mode) \in ModeChoices(opt)

\* Words given to the mode options
ModeWords == { <<"3">>, <<"P","W","M">>, <<"p","w","m">>, <<"D","C">>, <<"1","0">>, <<"b","o","g","u","s">> }

\* Sets of at most k options
RECURSIVE OptionSets(_)
OptionSets(k) ==
    IF k = 0 THEN {{}}
    ELSE LET smaller == OptionSets(k - 1) IN smaller \cup {g \cup {o} : g \in smaller, o \in Options}

\* The command lines of a run: at most MaxOpts options, or --id and --port together
\* with at most MaxOpts other options
CommandLines == OptionSets(MaxOpts) \cup {g \cup {"id", "port"} : g \in OptionSets(MaxOpts)}

Kinds(given) == {Steps[i].kind : i \in {j \in 1..Len(Steps) : Steps[j].opt \in given}}

CliCaptureReplies == { Yes \o NL, <<"Y","E","S">> \o NL, No \o NL }

\* Times and ranges given on the command line, capture times of the instrument
CliTimes == {0 - 1, 0, 2}
CliZooms == { <<0 - 1, 2>>, <<0, 0>>, <<2, 1>> }
CliDurations == {0, 3}

TestFile == <<"t","e","s","t">>
NoteText == <<"n","o","t","e">>

CliInit ==
    /\ wire = <<>>
    /\ call = NoCall
    /\ probe = <<>>
    /\ available_ports_dict = <<>>
    /\ discovered = "idle"
    /\ \E given \in CommandLines :
       \E mode \in IF given \cap ModeOptions # {} THEN ModeWords ELSE {<<>>} :
       \E time \in IF "cursor" \in Kinds(given) THEN CliTimes ELSE {0} :
       \E zoom \in IF "zoom" \in Kinds(given) THEN CliZooms ELSE {<<0, 1>>} :
       \E id \in IF "id" \in given THEN {0 - 1, 1, 6} ELSE {0} :
       \E port \in IF "port" \in given THEN {BasePort, BasePort + 5} ELSE {0} :
          args = [given |-> given, mode |-> mode, time |-> time, zoom |-> zoom,
                  file |-> TestFile, text |-> NoteText, num |-> 25, id |-> id, port |-> port]
    /\ accepting \in IF "id" \in args.given /\ "port" \notin args.given /\ args.id = 0 - 1
                     THEN SUBSET {BasePort + 1, BasePort + 5} ELSE {{}}
    /\ pc = [phase |-> "parse", i |-> 0]
    /\ exit_code = 0 - 1

Connected(port) == [dir |-> "connect", cmd |-> Command("", <<>>, <<port>>), raw |-> <<>>]
Closed == [dir |-> "close", cmd |-> Command("", <<>>, <<>>), raw |-> <<>>]

Done == [phase |-> "done", i |-> 0]

\* The next block whose option was given, after block i
RECURSIVE Advance(_)
Advance(i) ==
    IF i + 1 > Len(Steps) THEN Len(Steps) + 1
    ELSE IF Steps[i + 1].opt \in args.given THEN i + 1 ELSE Advance(i + 1)

Exit(status) ==
    /\ exit_code' = status
    /\ pc' = Done

CliUnchanged == UNCHANGED <<probe, accepting, available_ports_dict, discovered, args>>

\* parse_args, --generate-bash-completion, and the check that an argument was given
CliParse ==
    /\ pc.phase = "parse"
    /\ IF ~ArgparseAccepts(args) THEN Exit(2)
       ELSE IF "generate_bash_completion" \in args.given THEN Exit(0)
       ELSE IF args.given = {} THEN Exit(1)
       ELSE pc' = [phase |-> "select", i |-> 0] /\ exit_code' = exit_code
    /\ UNCHANGED <<wire, call>>
    /\ CliUnchanged

\* find_available_ports, as a whole: the mapping of the accepting ports
find_available_ports(S) == [id \in {instance_id(p) : p \in S \cap CandidatePorts} |-> BasePort + id - 1]

\* max(available_ports.values())
MaxOf_lowest(S) == CHOOSE m \in S : \A x \in S : x >= m
MaxOf(S) == CHOOSE m \in S : \A x \in S : x <= m

\* The port the driver connects to, or 0 when it gives up before connecting
SelectedPort_port_wins(a, S) ==
    IF "port" \in a.given THEN a.port
    ELSE IF "id" \in a.given
         THEN IF a.id = 0 - 1
              THEN LET available_ports == find_available_ports(S)
                   IN  IF DOMAIN available_ports = {} THEN 0
                       ELSE MaxOf({available_ports[k] : k \in DOMAIN available_ports})
              ELSE BasePort + a.id - 1
         ELSE BasePort
SelectedPort(a, S) ==
    IF "id" \in a.given /\ "port" \in a.given THEN 0
    ELSE IF "id" \in a.given
         THEN IF a.id = 0 - 1
              THEN LET available_ports == find_available_ports(S)
                   IN  IF DOMAIN available_ports = {} THEN 0
                       ELSE MaxOf({available_ports[k] : k \in DOMAIN available_ports})
              ELSE BasePort + a.id - 1
         ELSE IF "port" \in a.given THEN a.port ELSE BasePort

\* The run reaches api.find_available_ports(): --id -1 without --port
Discovers(a) == "id" \in a.given /\ "port" \notin a.given /\ a.id = 0 - 1

\* A connection attempt that the peer refuses: socket.connect raises
ConnectFailed(port) == [dir |-> "connect_failed", cmd |-> Command("", <<>>, <<port>>), raw |-> <<>>]

\* The --id / --port block, then api.connect()
CliConnect ==
    /\ pc.phase = "select"
    /\ discovered' = IF Discovers(args) THEN "returned" ELSE discovered
    /\ available_ports_dict' =
          IF Discovers(args) THEN find_available_ports(accepting) ELSE available_ports_dict
    /\ LET port == SelectedPort(args, accepting)
       IN  IF port = 0
           THEN Exit(1) /\ UNCHANGED wire
           ELSE \E ok \in BOOLEAN :
                   IF ok
                   THEN /\ wire' = wire \o <<Connected(port)>>
                        /\ pc' = [phase |-> "steps", i |-> Advance(0)]
                        /\ exit_code' = exit_code
                   ELSE /\ wire' = wire \o <<ConnectFailed(port)>>
                        /\ Exit(1)
    /\ UNCHANGED <<call, probe, accepting, args>>

AtStep(kind) ==
    /\ pc.phase = "steps"
    /\ pc.i <= Len(Steps)
    /\ Steps[pc.i].kind = kind

\* What the socket does to a command of the driver: it answers, or it fails
CliReplies == {OkReply, SendError, RecvError}

\* The end of a block: an exception ends the run with status 1
After_resume(text, isstr, nums, C, out) ==
    /\ wire' = out.wire
    /\ call' = Call(Steps[pc.i].opt, text, isstr, nums, C, out)
    /\ pc' = [phase |-> "steps", i |-> Advance(pc.i)]
    /\ exit_code' = exit_code
    /\ CliUnchanged
After(text, isstr, nums, C, out) ==
    /\ wire' = out.wire
    /\ call' = Call(Steps[pc.i].opt, text, isstr, nums, C, out)
    /\ IF out.raised # "" THEN Exit(1)
       ELSE pc' = [phase |-> "steps", i |-> Advance(pc.i)] /\ exit_code' = exit_code
    /\ CliUnchanged

\* --not-capturing: leave with status 0 when is_capturing() is true
CliNotCapturing ==
    /\ AtStep("not_capturing")
    /\ \E raw \in CliCaptureReplies \cup {SendError, RecvError} :
          LET out == is_capturing(wire, raw)
          IN  /\ wire' = out.wire
              /\ call' = Call("not_capturing", <<>>, FALSE, <<>>, 0, out)
              /\ IF out.raised # "" THEN Exit(1)
                 ELSE IF out.retb THEN Exit(0)
                 ELSE pc' = [phase |-> "steps", i |-> Advance(pc.i)] /\ exit_code' = exit_code
    /\ CliUnchanged

\* The calls of run_demo from hello() to zoom_all(): each sends one command
DemoHead == <<
    Command("Hello", NoText, NoNums),
    Command("isConnected", NoText, NoNums),
    Command("ShowInputs", NoText, NoNums),
    Command("ShowList", NoText, NoNums),
    Command("ShowSettings", NoText, NoNums),
    Command("ShowNotes", NoText, NoNums),
    Command("ShowOutputs", NoText, NoNums),
    Command("CloseTabs", NoText, NoNums),
    Command("SetD0Mode", <<"0">>, NoNums),
    Command("SetD0Mode", <<"1">>, NoNums),
    Command("SetD0Mode", <<"2">>, NoNums),
    Command("SetD0Mode", <<"3">>, NoNums),
    Command("SetD0PWM", <<"2","5">>, NoNums),
    Command("SetD0PWM", <<"7","5">>, NoNums),
    Command("SetD1Mode", <<"0">>, NoNums),
    Command("SetD1Mode", <<"1">>, NoNums),
    Command("SetD1Mode", <<"2">>, NoNums),
    Command("SetD1Mode", <<"3">>, NoNums),
    Command("SetD1PWM", <<"2","5">>, NoNums),
    Command("SetD1PWM", <<"7","5">>, NoNums),
    Command("SetA0Mode", <<"0">>, NoNums),
    Command("SetA0Mode", <<"1">>, NoNums),
    Command("SetA0Mode", <<"2">>, NoNums),
    Command("SetA0Mode", <<"3">>, NoNums),
    Command("SetA0Mode", <<"4">>, NoNums),
    Command("SetA0Mode", <<"5">>, NoNums),
    Command("SetA0Mode", <<"6">>, NoNums),
    Command("SetA0DCLEVEL", <<"0",".","5">>, NoNums),
    Command("SetA0DCLEVEL", <<"1",".","5">>, NoNums),
    Command("SetA0DCLEVEL", <<"2",".","5">>, NoNums),
    Command("SetA1Mode", <<"1">>, NoNums),
    Command("SetA1Mode", <<"2">>, NoNums),
    Command("SetA1Mode", <<"3">>, NoNums),
    Command("SetA1Mode", <<"4">>, NoNums),
    Command("SetA1Mode", <<"6">>, NoNums),
    Command("SetA1DCLEVEL", <<"0",".","5">>, NoNums),
    Command("SetA1DCLEVEL", <<"1",".","5">>, NoNums),
    Command("SetA1Mode", <<"7">>, NoNums),
    Command("SetA1MINIMUM", <<"0",".","5">>, NoNums),
    Command("SetA1MAXIMUM", <<"2",".","5">>, NoNums),
    Command("SetA1Mode", <<"8">>, NoNums),
    Command("SetA1Mode", <<"9">>, NoNums),
    Command("SetA1Mode", <<"1","0">>, NoNums),
    Command("SetA1Steps", <<"4","0","0","0">>, NoNums),
    Command("SetA1Steps", <<"5","0","0">>, NoNums),
    Command("isCapturing", NoText, NoNums),
    Command("StartCapture", NoText, NoNums),
    Command("GetLogic", NoText, NoNums),
    Command("GetCH1", NoText, NoNums),
    Command("GetCH2", NoText, NoNums),
    Command("GetCH3", NoText, NoNums),
    Command("StopCapture", NoText, NoNums),
    Command("GetCaptureSize", NoText, NoNums),
    Command("GetCaptureTime", NoText, NoNums),
    Command("ShowNotes", NoText, NoNums),
    Command("ClearNote", NoText, NoNums),
    Command("AppendNote", <<"S","e","n","t"," ","t","o"," ","t","h","e"," ","A","c","t","i","v","e","-","P","r","o"," ","A","p","p","l","i","c","a","t","i","o","n",".">>, NoNums),
    Command("AppendNote", NoText, NoNums),
    Command("AppendNote", <<"A","n","d"," ","h","e","r","e"," ","i","s"," ","m","o","r","e"," ","d","a","t","a",".">>, NoNums),
    Command("ZoomAll", NoText, NoNums) >>

\* Send the commands one after the other, each answered before the next
SendAll(w, cmds, raw) ==
    LET exchange == [i \in 1..Len(cmds) |-> send_command(<<>>, cmds[i], raw).wire]
    IN  w \o [k \in 1..(2 * Len(cmds)) |-> exchange[(k + 1) \div 2][2 - (k % 2)]]

\* A facade method that sends a file name
file_command(w, verb, filename, ext, raw) ==
    send_command(w, Command(verb, get_absolute_path(filename, ext), NoNums), raw)

\* run_demo; raw is the answer to the isCapturing of its open_capture
run_demo(w, raw) ==
    LET oks == <<OkReply, OkReply, OkReply>>
        w1 == SendAll(w, DemoHead, OkReply)
        w2 == zoom_from(w1, 1 * Second, 2 * Second, oks).wire
        w3 == set_cursor_current(w2, 1 * Second, oks).wire
        w4 == SendAll(w3, <<Command("Search", <<"m","o","n">>, NoNums),
                            Command("Search", <<"b","o","o","g","a">>, NoNums)>>, OkReply)
        w5 == set_cursor_current(w4, 3 * Second, oks).wire
        w6 == set_cursor_x1(w5, 0, oks).wire
        w7 == set_cursor_x2(w6, 5 * Second, oks).wire
        w8 == file_command(w7, "ExportBetweenCursors", <<"t","e","s","t">>, DotCsv, OkReply).wire
        w9 == file_command(w8, "SaveCapture", <<"t","e","s","t","s","a","v","e">>, DotActive, OkReply).wire
        w10 == file_command(w9, "SaveBetweenCursors", <<"t","e","s","t","s","a","v","e","b","e","t","w","e","e","n","c","u","r","s","o","r","s">>, DotActive, OkReply).wire
        w11 == file_command(w10, "SaveConfiguration", <<"t","e","s","t","s","a","v","e","c","o","n","f","i","g">>, DotActive, OkReply).wire
        w12 == file_command(w11, "OpenConfiguration", <<"t","e","s","t","s","a","v","e","c","o","n","f","i","g">>, DotActive, OkReply).wire
        w13 == file_command(w12, "SaveScreenshot", <<"t","e","s","t","c","l","o","s","e","d">>, DotPng, OkReply).wire
        w14 == send_command(w13, Command("NewCapture", NoText, NoNums), OkReply).wire
        w15 == open_capture(w14, <<"t","e","s","t","s","a","v","e">>, <<raw, OkReply, OkReply>>).wire
    IN  send_command(w15, Command("Exit", NoText, NoNums), OkReply)

\* The commands of the demo at which the socket is made to fail (0: at none)
DemoFaults == {0, 1, 61, 70, 76}

\* A run of the demo cut short by an exception of the socket in its k-th command:
\* the traffic goes as far as the write of that command; n events precede the demo
CutAt(whole, n, k, error) ==
    IF k = 0 \/ n + 2 * k > Len(whole.wire) THEN whole
    ELSE Outcome(SubSeq(whole.wire, 1, n + 2 * k - 1) \o <<SocketError(error)>>,
                 <<>>, FALSE, 0, "OSError")

\* run_demo when the socket fails in its k-th command
run_demo_failing(w, raw, k, error) == CutAt(run_demo(w, raw), Len(w), k, error)

CliDemo ==
    /\ AtStep("demo")
    /\ \E raw \in CliCaptureReplies, k \in DemoFaults, error \in {"send_failed", "recv_failed"} :
          After(<<>>, FALSE, <<>>, 0, run_demo_failing(wire, raw, k, error))

\* The blocks that call a method without argument
CliPlain ==
    /\ AtStep("plain")
    /\ \E reply \in CliReplies :
          After(<<>>, FALSE, <<>>, 0, send_command(wire, Command(Steps[pc.i].verb, NoText, NoNums), reply))

\* The blocks that pass a number on (--set-d0-pwm, --set-a0-dc-level, ...)
CliValue ==
    /\ AtStep("value")
    /\ \E reply \in CliReplies :
          After(<<>>, FALSE, <<args.num>>, 0,
                send_command(wire, Command(Steps[pc.i].verb, Numeral(args.num), NoNums), reply))

\* --append-note and --search
CliText ==
    /\ AtStep("text")
    /\ \E reply \in CliReplies :
          After(args.text, TRUE, <<>>, 0,
                send_command(wire, Command(Steps[pc.i].verb, args.text, NoNums), reply))

\* --set-cursor-current, --set-cursor-x1, --set-cursor-x2
CliCursor ==
    /\ AtStep("cursor")
    /\ \E C \in CliDurations, kind \in TimeKinds, reply \in CliReplies :
          After(<<>>, FALSE, <<args.time>>, C,
                set_cursor(Steps[pc.i].verb, wire, args.time, <<TimeReplies(C, kind)[1], reply>>))

\* --zoom-from and --zoom-range
CliZoom ==
    /\ AtStep("zoom")
    /\ \E C \in CliDurations, kind \in TimeKinds, reply \in CliReplies :
          After(<<>>, FALSE, args.zoom, C,
                zoom_from(wire, args.zoom[1], args.zoom[2], [TimeReplies(C, kind) EXCEPT ![3] = reply]))

\* The blocks that save or open a file, but for --open-capture
CliFile ==
    /\ AtStep("file")
    /\ \E reply \in CliReplies :
          After(args.file, TRUE, <<>>, 0,
                file_command(wire, Steps[pc.i].verb, args.file, Steps[pc.i].ext, reply))

\* --open-capture
CliOpenCapture ==
    /\ AtStep("open_capture")
    /\ \E raw \in CliCaptureReplies \cup {RecvError}, reply \in CliReplies :
          After(args.file, TRUE, <<>>, 0, open_capture(wire, args.file, <<raw, reply, reply>>))

ModeMapOf(opt) ==
    CASE opt \in {"set_d0_mode", "set_d1_mode"} -> DModeMap
      [] opt = "set_a0_mode" -> A0ModeMap
      [] OTHER -> A1ModeMap

\* --set-d0-mode, --set-d1-mode, --set-a0-mode, --set-a1-mode: convert the parsed
\* word, send the result; a ValueError ends the run with status 1
CliSetMode ==
    /\ AtStep("mode")
    /\ LET word == ParsedMode(Steps[pc.i].opt, args.mode)
           mode == convert_mode(ModeMapOf(Steps[pc.i].opt), StrParam(word))
       IN  IF mode.raised # ""
           THEN After(word, TRUE, <<>>, 0, Outcome(wire, <<>>, FALSE, 0, mode.raised))
           ELSE \E reply \in CliReplies :
                   After(word, TRUE, <<>>, 0, set_mode(Steps[pc.i].verb, wire, mode.val, reply))

\* api.disconnect() and the end of the script
CliDisconnect ==
    /\ pc.phase = "steps"
    /\ pc.i = Len(Steps) + 1
    /\ wire' = wire \o <<Closed>>
    /\ Exit(0)
    /\ UNCHANGED call
    /\ CliUnchanged

CliNext ==
    \/ CliParse
    \/ CliConnect
    \/ CliNotCapturing
    \/ CliDemo
    \/ CliPlain
    \/ CliValue
    \/ CliText
    \/ CliCursor
    \/ CliZoom
    \/ CliFile
    \/ CliOpenCapture
    \/ CliSetMode
    \/ CliDisconnect

CliSpec == CliInit /\ [][CliNext]_vars

----------------------------------------------------------------------------
(* Claims about the driver *)

StepOf(opt) == Steps[CHOOSE i \in 1..Len(Steps) : Steps[i].opt = opt]

\* The argument a mode command is expected to carry for a word the command line
\* accepts: the code itself, or the code of the alias
ExpectedModeText(opt, word) ==
    IF IsNumeral(word) THEN word ELSE Numeral(IndexIn(Lower(word), ModeMapOf(opt)) - 1)

\* C4 (as stated): for every value that --set-d0-mode, --set-d1-mode, --set-a0-mode
\* or --set-a1-mode accepts, integer code or alias, the driver sends the matching
\* Set<X>Mode command carrying the numeric code (unless the socket fails).
C4_AcceptedModeIsSent ==
    (call.op \in ModeOptions /\ call.raised # "OSError") =>
        /\ call.raised = ""
        /\ LastCmd(wire) = Command(StepOf(call.op).verb, ExpectedModeText(call.op, call.text), NoNums)

\* C5 (as stated): with --not-capturing, when the instrument answers "yes" to the
\* isCapturing query, no further command is sent in the run.
C5_NoCommandWhileCapturing ==
    ("not_capturing" \in args.given /\ SaidYes(wire)) => Verbs(wire) = <<"isCapturing">>

\* The connection attempts of a run, in order
IsConnect(e) == e.dir \in {"connect", "connect_failed"}
Connects(w) == SelectSeq(w, IsConnect)

\* The ports that discovery returned to the driver
Found == {available_ports_dict[id] : id \in DOMAIN available_ports_dict}

\* C12: with --id -1 the driver connects to the highest discovered port, and to no
\* other; when discovery finds no port the run ends with status 1 and nothing was
\* connected or sent.
C12_AutoSelectHighest ==
    discovered = "returned" =>
        /\ Found = accepting
        /\ IF Found = {}
           THEN exit_code = 1 /\ wire = <<>>
           ELSE /\ Len(Connects(wire)) = 1
                /\ IsConnect(wire[1])
                /\ wire[1].cmd.nums[1] \in Found
                /\ \A port \in Found : port <= wire[1].cmd.nums[1]

\* Instances 2 and 6 are live: the run connects to 37805 and sends its command
C12_Witness ==
    /\ discovered = "returned"
    /\ accepting = {BasePort + 1, BasePort + 5}
    /\ wire[1] = Connected(BasePort + 5)
    /\ Verbs(wire) = <<"Hello">>
    /\ exit_code = 0

IsRead(e) == e.dir \in {"recv", "recv_failed"}

\* Every command written is followed at once by its read, or by the failure of its
\* write, and nothing is read that was not asked for
Alternates(w) ==
    \A i \in 1..Len(w) :
        /\ w[i].dir = "send" => (i < Len(w) /\ (IsRead(w[i + 1]) \/ w[i + 1].dir = "send_failed"))
        /\ w[i].dir \in {"recv", "recv_failed", "send_failed"} => (i > 1 /\ w[i - 1].dir = "send")

\* C14: at most one command is in flight: the traffic of every facade call, the
\* composite ones included, is a sequence of complete exchanges, each command
\* followed by the read of its response before the next command is written; the
\* call leaves no command unanswered, so that the calls of a sequence alternate too.
C14_OneInFlight ==
    /\ Alternates(wire)
    /\ \A i \in 1..Len(wire) : wire[i].dir \in {"send", "recv", "recv_failed", "send_failed"}
    /\ call.raised = "" => (Len(wire) % 2 = 0 /\ Len(SentCmds(wire)) = Len(Replies(wire)))

\* zoom_cursors with both cursors at 0: four commands, each answered before the next
C14_Witness ==
    /\ call.op = "zoom_cursors"
    /\ call.raised = ""
    /\ Verbs(wire) = <<"GetCursorX1", "GetCursorX2", "GetCaptureTime", "ZoomFrom">>
    /\ Len(wire) = 8

\* C15: send_command(text) writes text followed by one newline, reads once, and
\* returns what it read without the whitespace at its two ends (and with everything
\* between), so that the returned text never ends with a newline.
C15_SendCommand ==
    (call.op = "send_command" /\ call.raised = "") =>
        /\ Len(wire) = 2
        /\ wire[1] = [dir |-> "send", cmd |-> Command("", call.text, NoNums), raw |-> <<"\n">>]
        /\ wire[2].dir = "recv"
        /\ \E i \in 0..Len(wire[2].raw) :
              /\ \A k \in 1..i : wire[2].raw[k] \in {" ", "\n", "\r", "\t"}
              /\ i + Len(call.ret) <= Len(wire[2].raw)
              /\ \A k \in 1..Len(call.ret) : call.ret[k] = wire[2].raw[i + k]
              /\ \A k \in (i + Len(call.ret) + 1)..Len(wire[2].raw) :
                    wire[2].raw[k] \in {" ", "\n", "\r", "\t"}
        /\ call.ret # <<>> =>
              /\ call.ret[1] \notin {" ", "\n", "\r", "\t"}
              /\ call.ret[Len(call.ret)] \notin {" ", "\n", "\r", "\t"}

\* The answer "a\nb\n" is returned as "a\nb": only the last newline is dropped
C15_Witness ==
    /\ call.op = "send_command"
    /\ call.text = <<"H","e","l","l","o">>
    /\ Replies(wire) = << <<"a","\n","b","\n">> >>
    /\ call.ret = <<"a","\n","b">>

\* A connect, a write or a read that failed
IsFailure(e) == e.dir \in {"connect_failed", "send_failed", "recv_failed"}

\* C16: when a connect, a send or a receive fails at any point of a run, that is the
\* last thing the run does on the network (no further command, no second attempt
\* of the failed one, no second connection), and the process exits with status 1.
C16_FailureEndsRun ==
    \A i \in 1..Len(wire) :
        IsFailure(wire[i]) =>
            /\ i = Len(wire)
            /\ pc = Done
            /\ exit_code = 1

\* --hello --exit with a read of the answer to Hello that fails: Exit is never sent
C16_Witness ==
    /\ args.given = {"hello", "exit"}
    /\ Verbs(wire) = <<"Hello">>
    /\ wire[Len(wire)].dir = "recv_failed"
    /\ pc = Done
    /\ exit_code = 1

SaveVerbs == {"SaveCapture", "SaveBetweenCursors", "ExportBetweenCursors", "SaveConfiguration", "SaveScreenshot"}
LoadVerbs == {"OpenConfiguration", "OpenCapture"}
RestartVerbs == {"NewCapture", "Exit"}

\* Saves come before loads, and loads before restarts
InPriorityOrder(v) ==
    \A i \in 1..Len(v), j \in 1..Len(v) :
        i < j => /\ ~(v[i] \in LoadVerbs /\ v[j] \in SaveVerbs)
                 /\ ~(v[i] \in RestartVerbs /\ v[j] \in SaveVerbs \cup LoadVerbs)

\* C17 (as stated): in every run, whatever the flags, every save or export command
\* is sent before any load command, and every load command before NewCapture and Exit.
C17_PriorityOrder == InPriorityOrder(Verbs(wire))

\* The commands that the blocks of the driver send themselves: all of them without
\* --demo; with --demo those that follow the script, whose last command is Exit
AfterDemo(w) ==
    IF "demo" \notin args.given THEN w
    ELSE IF \A i \in 1..Len(w) : ~(IsSend(w[i]) /\ w[i].cmd.verb = "Exit") THEN <<>>
    ELSE LET first == CHOOSE i \in 1..Len(w) :
                          /\ IsSend(w[i]) /\ w[i].cmd.verb = "Exit"
                          /\ \A k \in 1..(i - 1) : ~(IsSend(w[k]) /\ w[k].cmd.verb = "Exit")
         IN  SubSeq(w, first + 2, Len(w))

\* C17 (amended): the blocks of the driver send their commands in the fixed order,
\* saves and exports before loads, loads before NewCapture and Exit; the script of
\* --demo runs before them in an order of its own.
C17_PriorityOrderOutsideDemo == InPriorityOrder(Verbs(AfterDemo(wire)))

\* --open-configuration F --save-capture F: the capture is saved first
C17_Witness ==
    /\ args.given = {"open_configuration", "save_capture"}
    /\ Verbs(wire) = <<"SaveCapture", "OpenConfiguration">>
    /\ exit_code = 0

\* The call asks for the capture time because of a negative time
AsksForNegative ==
    \/ IsCursorOp(call.op) /\ call.nums[1] < 0
    \/ call.op = "zoom_from" /\ (call.nums[1] < 0 \/ call.nums[2] < 0)

\* The first exchange of the call failed: the socket raised, or the answer is not a number
QueryFailed(w) ==
    /\ Len(w) >= 2
    /\ \/ w[2].dir \in {"send_failed", "recv_failed"}
       \/ w[2].dir = "recv" /\ ~IsNumeral(Strip(w[2].raw))

\* C18: when a cursor-set or zoom operation is given a negative time and its
\* GetCaptureTime query fails (the socket raises, or the answer is not a number), the
\* operation ends by an exception and GetCaptureTime is the only command written.
C18_FailedQueryAborts ==
    (AsksForNegative /\ QueryFailed(wire)) =>
        /\ call.raised \in {"OSError", "ValueError"}
        /\ call.raised = "OSError" <=> wire[2].dir # "recv"
        /\ Len(wire) = 2
        /\ wire[1] = Sent(Command("GetCaptureTime", NoText, NoNums))

\* zoom_from(-1, 2) when the read of the capture time fails
C18_Witness ==
    /\ call.op = "zoom_from"
    /\ call.nums = <<0 - 1, 2>>
    /\ wire = <<Sent(Command("GetCaptureTime", NoText, NoNums)), SocketError("recv_failed")>>
    /\ call.raised = "OSError"

\* The codes of the A0 aliases and of the A1 aliases, written out
A0Code(alias) ==
    CASE alias = <<"t","r","i","s","t","a","t","e">> -> 0
      [] alias = <<"0","v">> -> 1
      [] alias = <<"1","v">> -> 2
      [] alias = <<"2","v">> -> 3
      [] alias = <<"3","v">> -> 4
      [] alias = <<"3",".","3","v">> -> 5
      [] alias = <<"d","c">> -> 6
      [] OTHER -> -1
A1Code(alias) ==
    CASE alias = <<"r","a","m","p">> -> 7
      [] alias = <<"s","i","n","e">> -> 8
      [] alias = <<"s","q","u","a","r","e">> -> 9
      [] alias = <<"t","r","i","a","n","g","l","e">> -> 10
      [] OTHER -> A0Code(alias)

\* The code that the table of a convert_*_mode gives an alias, -1 when it has none
DeclaredCode(op, alias) ==
    CASE op \in {"convert_d0_mode", "convert_d1_mode"} -> D0Code(alias)
      [] op = "convert_a0_mode" -> A0Code(alias)
      [] op = "convert_a1_mode" -> A1Code(alias)

\* C19: convert_d0_mode, convert_d1_mode, convert_a0_mode and convert_a1_mode give a
\* declared alias of their channel, in any letter case, its fixed code, and raise an
\* invalid-argument error (ValueError) for every other string; they send nothing.
C19_AliasResolution ==
    (call.op \in {"convert_d0_mode", "convert_d1_mode", "convert_a0_mode", "convert_a1_mode"} /\ call.isstr) =>
        /\ wire = <<>>
        /\ IF DeclaredCode(call.op, Lower(call.text)) >= 0
           THEN call.raised = "" /\ ~call.retb /\ call.retn = DeclaredCode(call.op, Lower(call.text))
           ELSE call.raised = "ValueError"

\* convert_a1_mode("SINE") is 8
C19_Witness ==
    /\ call.op = "convert_a1_mode"
    /\ call.text = <<"S","I","N","E">>
    /\ call.raised = ""
    /\ call.retn = 8

\* The run rejected the value of a mode option: the argument parser did (status 2),
\* or the conversion in the block of the option did
ModeRejected ==
    \/ pc = Done /\ ~ArgparseAccepts(args)
    \/ call.op \in ModeOptions /\ call.raised = "ValueError"

\* C20 (as stated): when the driver rejects a mode value, no connection has been
\* opened and no command has been sent in that run, and the exit status is not 0.
C20_ModeRejectedBeforeIO ==
    ModeRejected => (wire = <<>> /\ pc = Done /\ exit_code > 0)

\* How many times a verb was written in a run
CountVerb(verb, w) == Len(SelectSeq(Verbs(w), LAMBDA v : v = verb))

\* The verbs that the composite methods send on their own account
AuxiliaryVerbs == {"isCapturing", "StopCapture", "GetCaptureTime"}

\* The options given whose block sends the verb
Requesting(verb) == {o \in args.given : \E i \in 1..Len(Steps) : Steps[i].opt = o /\ Steps[i].verb = verb}

\* C21 (as stated): in a run without --demo the verb of each option given is sent at
\* most once for that option, and a run with --save-configuration that goes to its
\* end (disconnect) has sent SaveConfiguration exactly once.
C21_VerbSentOnce ==
    "demo" \notin args.given =>
        /\ \A i \in 1..Len(Steps) :
              (Steps[i].opt \in args.given /\ Steps[i].verb \notin AuxiliaryVerbs \cup {""}) =>
                  CountVerb(Steps[i].verb, wire) <= Cardinality(Requesting(Steps[i].verb))
        /\ ("save_configuration" \in args.given /\ wire # <<>> /\ wire[Len(wire)] = Closed) =>
              CountVerb("SaveConfiguration", wire) = 1

\* The calls of disconnect in a run
IsClose(e) == e.dir = "close"
Closes(w) == SelectSeq(w, IsClose)

\* Every command is written on the open connection: after the connect that
\* succeeded, which opens the record, and with no disconnect before it; disconnect
\* is called at most once and nothing follows it
WithinConnection(w) ==
    /\ \A i \in 1..Len(w) :
          IsSend(w[i]) => (w[1].dir = "connect" /\ \A k \in 1..i : ~IsClose(w[k]))
    /\ Len(Closes(w)) <= 1
    /\ \A i \in 1..Len(w) : IsClose(w[i]) => (i = Len(w) /\ w[1].dir = "connect")

\* C22 (as stated): every command of a run is sent after connect has succeeded and
\* before disconnect; disconnect is called at most once, only after the last
\* command; and a run that has connected and ends without error (status 0) has
\* called it exactly once.
C22_ConnectCommandsDisconnect ==
    /\ WithinConnection(wire)
    /\ (pc = Done /\ exit_code = 0 /\ Connects(wire) # <<>>) => Len(Closes(wire)) = 1

\* The number of GetCaptureTime queries that zoom_from(start, end) needs on a capture
\* of duration C: one when an endpoint is negative, one more when both resolved
\* endpoints are 0
QueriesNeeded(start, end, C) ==
    (IF start < 0 \/ end < 0 THEN 1 ELSE 0)
  + (IF Resolved(start, C) = 0 /\ Resolved(end, C) = 0 THEN 1 ELSE 0)

\* C23: a zoom_from call that does not fail sends exactly one ZoomFrom, as its last
\* command, and before it only GetCaptureTime queries: one when at least one endpoint
\* is negative (not one per negative endpoint), plus one more exactly when the
\* resolved range is degenerate at 0; never more than two.
C23_ZoomFromQueries ==
    (call.op = "zoom_from" /\ call.raised = "") =>
        LET vs == Verbs(wire)
            n == Len(vs)
        IN  /\ n >= 1
            /\ vs[n] = "ZoomFrom"
            /\ CountVerb("ZoomFrom", wire) = 1
            /\ \A i \in 1..(n - 1) : vs[i] = "GetCaptureTime"
            /\ n - 1 = QueriesNeeded(call.nums[1], call.nums[2], call.C)
            /\ n - 1 <= 2

\* Both endpoints negative and resolved to 0: two queries, then ZoomFrom
C23_Witness ==
    /\ call.op = "zoom_from"
    /\ call.raised = ""
    /\ call.nums[1] < 0
    /\ call.nums[2] < 0
    /\ Verbs(wire) = <<"GetCaptureTime", "GetCaptureTime", "ZoomFrom">>

\* Both endpoints negative, the range not degenerate: a single query, then ZoomFrom
C23_WitnessOne ==
    /\ call.op = "zoom_from"
    /\ call.raised = ""
    /\ call.nums[1] < 0
    /\ call.nums[2] < 0
    /\ Verbs(wire) = <<"GetCaptureTime", "ZoomFrom">>

\* Nothing is written after an Exit command
ExitIsLast(w) ==
    \A i \in 1..Len(w) :
        (IsSend(w[i]) /\ w[i].cmd.verb = "Exit") => \A k \in (i + 1)..Len(w) : ~IsSend(w[k])

\* C24 (as stated): in a run, with or without --demo, no command is sent once the
\* Exit command has been sent.
C24_NothingAfterExit == ExitIsLast(wire)

====
